---- MODULE Spec2Model ----
(***************************************************************************)
(* A model of the Table16 SHA-256 chip facade (src/src/table16.rs): the    *)
(* bit/word codec, the spread lookup table, the chip's configuration, the  *)
(* cell assignment helpers and the initialise / compress / digest flow.    *)
(*                                                                         *)
(* Number representation.  TLC's integers are 32-bit signed, so a Rust     *)
(* u32 or u64 is kept as its little-endian 16-bit limbs: a u16 is a plain  *)
(* integer 0..65535, a u32 is <<lo, hi>> and a u64 is <<l0, l1, l2, l3>>.  *)
(* A [bool; LEN] is a sequence of LEN booleans, position i+1 holding bit i *)
(* (little-endian, as in Bits<LEN>).                                       *)
(***************************************************************************)
EXTENDS Integers, Sequences, FiniteSets, TLC

VARIABLES
  cin, cout,                       \* codec: the input integer, the last conversion
  cs, configs, synthesized,        \* constraint systems, their chip configs, witness runs
  table_rows, lookup_rows, verdict,
                                   \* rows assigned to the spread table, witness rows of
                                   \* the lookup's input columns, the verifier's verdict
  region, result,                  \* assigned cells of a region, outcome of the last assign call
  phase, state, initialized, blocks, call, digest_words, caller_words
                                   \* the chip's initialise / compress / digest flow

vars ==
  <<cin, cout, cs, configs, synthesized, table_rows, lookup_rows, verdict, region, result,
    phase, state, initialized, blocks, call, digest_words, caller_words>>

----------------------------------------------------------------------------
(* Program constants.                                                      *)

ROUNDS == 64
\* STATE in the source; STATE is a reserved word of TLA+.
STATE_WORDS == 8
BLOCK_SIZE == 16

\* A u32 written as its two 16-bit halves, high half first as in a hex literal.
U32(hi, lo) == <<lo, hi>>

ROUND_CONSTANTS ==
  <<
    U32(\H428a, \H2f98), U32(\H7137, \H4491), U32(\Hb5c0, \Hfbcf), U32(\He9b5, \Hdba5),
    U32(\H3956, \Hc25b), U32(\H59f1, \H11f1), U32(\H923f, \H82a4), U32(\Hab1c, \H5ed5),
    U32(\Hd807, \Haa98), U32(\H1283, \H5b01), U32(\H2431, \H85be), U32(\H550c, \H7dc3),
    U32(\H72be, \H5d74), U32(\H80de, \Hb1fe), U32(\H9bdc, \H06a7), U32(\Hc19b, \Hf174),
    U32(\He49b, \H69c1), U32(\Hefbe, \H4786), U32(\H0fc1, \H9dc6), U32(\H240c, \Ha1cc),
    U32(\H2de9, \H2c6f), U32(\H4a74, \H84aa), U32(\H5cb0, \Ha9dc), U32(\H76f9, \H88da),
    U32(\H983e, \H5152), U32(\Ha831, \Hc66d), U32(\Hb003, \H27c8), U32(\Hbf59, \H7fc7),
    U32(\Hc6e0, \H0bf3), U32(\Hd5a7, \H9147), U32(\H06ca, \H6351), U32(\H1429, \H2967),
    U32(\H27b7, \H0a85), U32(\H2e1b, \H2138), U32(\H4d2c, \H6dfc), U32(\H5338, \H0d13),
    U32(\H650a, \H7354), U32(\H766a, \H0abb), U32(\H81c2, \Hc92e), U32(\H9272, \H2c85),
    U32(\Ha2bf, \He8a1), U32(\Ha81a, \H664b), U32(\Hc24b, \H8b70), U32(\Hc76c, \H51a3),
    U32(\Hd192, \He819), U32(\Hd699, \H0624), U32(\Hf40e, \H3585), U32(\H106a, \Ha070),
    U32(\H19a4, \Hc116), U32(\H1e37, \H6c08), U32(\H2748, \H774c), U32(\H34b0, \Hbcb5),
    U32(\H391c, \H0cb3), U32(\H4ed8, \Haa4a), U32(\H5b9c, \Hca4f), U32(\H682e, \H6ff3),
    U32(\H748f, \H82ee), U32(\H78a5, \H636f), U32(\H84c8, \H7814), U32(\H8cc7, \H0208),
    U32(\H90be, \Hfffa), U32(\Ha450, \H6ceb), U32(\Hbef9, \Ha3f7), U32(\Hc671, \H78f2)
  >>

IV ==
  <<
    U32(\H6a09, \He667),
    U32(\Hbb67, \Hae85),
    U32(\H3c6e, \Hf372),
    U32(\Ha54f, \Hf53a),
    U32(\H510e, \H527f),
    U32(\H9b05, \H688c),
    U32(\H1f83, \Hd9ab),
    U32(\H5be0, \Hcd19)
  >>

\* The test vector's expected output (compression::COMPRESSION_OUTPUT): the
\* SHA-256 digest of "abc", ba7816bf 8f01cfea 414140de 5dae2223 b00361a3
\* 96177a9c b410ff61 f20015ad.
COMPRESSION_OUTPUT ==
  <<
    U32(\Hba78, \H16bf),
    U32(\H8f01, \Hcfea),
    U32(\H4141, \H40de),
    U32(\H5dae, \H2223),
    U32(\Hb003, \H61a3),
    U32(\H9617, \H7a9c),
    U32(\Hb410, \Hff61),
    U32(\Hf200, \H15ad)
  >>

\* message_schedule::msg_schedule_test_input: the padded one-block message "abc".
msg_schedule_test_input ==
  <<
    U32(\H6162, \H6380), U32(0, 0), U32(0, 0), U32(0, 0),
    U32(0, 0), U32(0, 0), U32(0, 0), U32(0, 0),
    U32(0, 0), U32(0, 0), U32(0, 0), U32(0, 0),
    U32(0, 0), U32(0, 0), U32(0, 0), U32(0, \H0018)
  >>

----------------------------------------------------------------------------
(* Bit/word codec (util.rs; used by table16.rs lines 66-121).              *)

Pow2(n) == 2 ^ n

BoolToInt(b) == IF b THEN 1 ELSE 0

\* u16 / u32 widened to u64 (`int.into()`), and u64 narrowed (`as u16`, `as u32`).
u16_into_u64(int) == <<int, 0, 0, 0>>
u32_into_u64(int) == <<int[1], int[2], 0, 0>>
u64_as_u16(int) == int[1]
u64_as_u32(int) == <<int[1], int[2]>>

\* Bit i (0-based) of a u64.
BitOfU64(int, i) == (int[(i \div 16) + 1] \div Pow2(i % 16)) % 2

\* i2lebsp::<NUM_BITS>(int): the NUM_BITS little-endian bits of int.  The
\* conversion fails (aborts the pass) when int does not fit in NUM_BITS bits;
\* the outcome is [ok |-> FALSE] then, and [ok |-> TRUE, bits |-> ...] otherwise.
i2lebsp(NUM_BITS, int) ==
  IF \E i \in NUM_BITS..63 : BitOfU64(int, i) = 1
  THEN [ok |-> FALSE, bits |-> <<>>]
  ELSE [ok |-> TRUE, bits |-> [i \in 1..NUM_BITS |-> BitOfU64(int, i - 1) = 1] \o <<>>]

\* lebs2ip(bits): the u64 whose little-endian bits are `bits`, the sum of 2^i
\* over the set bits i, taken limb by limb.  It is defined for sequences of at
\* most 64 bits (spec section 4.1).
BitAt(bits, i) == IF i <= Len(bits) /\ bits[i] THEN 1 ELSE 0
NibbleAt(bits, i) ==
  (BitAt(bits, i) + 2 * BitAt(bits, i + 1)) + (4 * BitAt(bits, i + 2) + 8 * BitAt(bits, i + 3))
LimbAt(bits, i) ==
  (NibbleAt(bits, i) + 16 * NibbleAt(bits, i + 4))
    + (256 * NibbleAt(bits, i + 8) + 4096 * NibbleAt(bits, i + 12))
lebs2ip(bits) ==
  IF Len(bits) <= 64
  THEN <<LimbAt(bits, 1), LimbAt(bits, 17), LimbAt(bits, 33), LimbAt(bits, 49)>>
  ELSE <<>>

\* spread_bits(bits): input bit i at position 2i, 0 at position 2i+1.
spread_bits(bits) ==
  [i \in 1..(2 * Len(bits)) |-> IF i % 2 = 1 THEN bits[(i + 1) \div 2] ELSE FALSE] \o <<>>

\* even_bits / odd_bits: the bits at the even / odd positions of a sequence.
even_bits(bits) == [i \in 1..(Len(bits) \div 2) |-> bits[2 * i - 1]] \o <<>>
odd_bits(bits) == [i \in 1..(Len(bits) \div 2) |-> bits[2 * i]] \o <<>>

\* Bits::spread gone wrong: the zeros appended after the bits instead of
\* interleaved with them.
Bits_spread_appending(self) == self \o ([i \in 1..Len(self) |-> FALSE] \o <<>>)

\* impl Bits<LEN> { fn spread }
Bits_spread(self) == spread_bits(self)

\* impl From<&Bits<16>> for u16
From_Bits16_for_u16(bits) == u64_as_u16(lebs2ip(bits))

\* impl From<u16> for Bits<16>
From_u16_for_Bits16(int) == i2lebsp(16, u16_into_u64(int)).bits

\* impl From<&Bits<32>> for u32
From_Bits32_for_u32(bits) == u64_as_u32(lebs2ip(bits))

\* From<u32> gone wrong: the integer narrowed to 16 bits before it is widened.
From_u32_for_Bits32_narrowing(int) == i2lebsp(32, u16_into_u64(int[1])).bits

\* impl From<u32> for Bits<32>
From_u32_for_Bits32(int) == i2lebsp(32, u32_into_u64(int)).bits

----------------------------------------------------------------------------
(* Spread lookup table (spread_table.rs; spec section 4.2).                *)

\* The table's key width: Table16 has one row per 16-bit value.
TABLE_BITS == 16

\* Bit-length classes of the 3-valued tag.  The class boundaries are not fixed
\* by the specification; nothing checked below depends on where they lie.
TAG_CLASS_1 == 7
TAG_CLASS_2 == 10

get_tag(dense) ==
  IF dense < Pow2(TAG_CLASS_1) THEN 0
  ELSE IF dense < Pow2(TAG_CLASS_2) THEN 1 ELSE 2

\* The spread form of a 16-bit value as a field element: bit i of dense at bit 2i.
SpreadBit(dense, i) == ((dense \div (2 ^ i)) % 2) * (4 ^ i)
SpreadNibble(dense, i) ==
  (SpreadBit(dense, i) + SpreadBit(dense, i + 1))
    + (SpreadBit(dense, i + 2) + SpreadBit(dense, i + 3))
spread_value(dense) ==
  (SpreadNibble(dense, 0) + SpreadNibble(dense, 4))
    + (SpreadNibble(dense, 8) + SpreadNibble(dense, 12))

\* SpreadTableConfig::generate: one row (tag, dense, spread) per 16-bit value,
\* in ascending order of the dense value.
SpreadTable_generate ==
  [i \in 1..Pow2(TABLE_BITS) |-> <<get_tag(i - 1), i - 1, spread_value(i - 1)>>] \o <<>>

\* SpreadTableChip::load: assigns every generated row, in order, to the three
\* table columns.  The rows are a function of their index alone, so the table's
\* state is the number of rows assigned: row i of the table is
\* SpreadTable_generate[i] for i in 1..table_rows.
SpreadTableChip_load == Len(SpreadTable_generate)

\* SpreadWord::new(dense bits) and SpreadVar::with_lookup: the witness row
\* (tag, dense, spread) an honest prover writes to the lookup's input columns.
SpreadWord_new(dense_bits) ==
  LET dense == From_Bits16_for_u16(dense_bits)
      spread == lebs2ip(Bits_spread(dense_bits))
  IN <<get_tag(dense), dense, spread[1] + 65536 * spread[2]>>

----------------------------------------------------------------------------
(* Gate library (gates.rs, util.rs; spec section 4.3).                     *)

\* The 32-bit word <<lo, hi>> as Bits<32> and back, through the chip's codec.
word_bits(w) == From_u32_for_Bits32(w)
bits_word(bits) == From_Bits32_for_u32(bits)

rotr(bits, n) == [i \in 1..32 |-> bits[((i - 1 + n) % 32) + 1]] \o <<>>
shr(bits, n) == [i \in 1..32 |-> IF i + n <= 32 THEN bits[i + n] ELSE FALSE] \o <<>>
negate(bits) == [i \in 1..32 |-> ~bits[i]] \o <<>>

\* Base-4 digit j of one spread operand, and of the sum of two or three.
SpreadDigit(spread, j) == BoolToInt(spread[2 * j - 1]) + 2 * BoolToInt(spread[2 * j])
SumDigit(spreads, j) ==
  IF Len(spreads) >= 3
  THEN (SpreadDigit(spreads[1], j) + SpreadDigit(spreads[2], j)) + SpreadDigit(spreads[3], j)
  ELSE SpreadDigit(spreads[1], j) + SpreadDigit(spreads[2], j)

\* The field sum of up to three spread words, as its 32 base-4 digits (digit j is
\* bits 2j and 2j+1 of the sum; spread operands carry nothing between digits).
spread_sum(spreads) == [j \in 1..32 |-> SumDigit(spreads, j)] \o <<>>

\* Even/odd bit extraction from a spread sum: sum = spread(even) + 2 * spread(odd).
sum_even_bits(sum) == [j \in 1..32 |-> sum[j] % 2 = 1] \o <<>>
sum_odd_bits(sum) == [j \in 1..32 |-> (sum[j] \div 2) % 2 = 1] \o <<>>

\* The sum of half k of up to eight dense words (a round adds at most the six
\* terms of T1 and the two of T2).
HalfAt(ws, k, i) == IF i <= Len(ws) THEN ws[i][k] ELSE 0
SumHalves(ws, k) ==
  ((HalfAt(ws, k, 1) + HalfAt(ws, k, 2)) + (HalfAt(ws, k, 3) + HalfAt(ws, k, 4)))
    + ((HalfAt(ws, k, 5) + HalfAt(ws, k, 6)) + (HalfAt(ws, k, 7) + HalfAt(ws, k, 8)))

\* Bounded modular addition of dense words <<lo, hi>>: the halves are summed
\* and the low 32 bits are kept; the overflow is the explicit carry.
add_halves(lo, hi) == <<lo % 65536, (hi + (lo \div 65536)) % 65536>>
add_mod_2_32(ws) == add_halves(SumHalves(ws, 1), SumHalves(ws, 2))

----------------------------------------------------------------------------
(* Message schedule engine (message_schedule.rs; spec section 4.4).        *)

\* sigma_0(x) = rotr(x,7) XOR rotr(x,18) XOR shr(x,3), on the bits x of a word:
\* the even bits of the sum of the three operands' spread forms.
sigma_0_bits(x) ==
  bits_word(sum_even_bits(spread_sum(
    <<spread_bits(rotr(x, 7)), spread_bits(rotr(x, 18)), spread_bits(shr(x, 3))>>)))
sigma_0(w) == sigma_0_bits(word_bits(w))

\* sigma_1(x) = rotr(x,17) XOR rotr(x,19) XOR shr(x,10).
sigma_1_bits(x) ==
  bits_word(sum_even_bits(spread_sum(
    <<spread_bits(rotr(x, 17)), spread_bits(rotr(x, 19)), spread_bits(shr(x, 10))>>)))
sigma_1(w) == sigma_1_bits(word_bits(w))

\* W_t = sigma_1(W_{t-2}) + W_{t-7} + sigma_0(W_{t-15}) + W_{t-16} (mod 2^32),
\* for the 1-based position t of the next word.
schedule_word(w, t) ==
  add_mod_2_32(<<sigma_1(w[t - 2]), w[t - 7], sigma_0(w[t - 15]), w[t - 16]>>)

\* The words at positions from..to are appended in ascending order.  The
\* range is halved at each step, the lower half first, so that the evaluation
\* nests only as deep as the number of halvings.
RECURSIVE schedule_words(_, _, _)
schedule_words(w, from, to) ==
  IF Len(w) # from - 1 THEN w
  ELSE IF from = to THEN Append(w, schedule_word(w, from))
  ELSE schedule_words(schedule_words(w, from, (from + to) \div 2),
                      ((from + to) \div 2) + 1, to)

\* MessageScheduleConfig::process(layouter, input): (w, w_halves, assigned_inputs).
\* A round word W_t is its two dense halves <<lo, hi>>.
schedule_result(w, input) == [w |-> w, w_halves |-> w, assigned_inputs |-> input]
MessageSchedule_process(input) ==
  schedule_result(schedule_words(input, BLOCK_SIZE + 1, ROUNDS), input)

----------------------------------------------------------------------------
(* Compression engine (compression.rs; spec section 4.5).                  *)

upper_sigma_0(x) ==
  bits_word(sum_even_bits(spread_sum(
    <<spread_bits(rotr(x, 2)), spread_bits(rotr(x, 13)), spread_bits(rotr(x, 22))>>)))

upper_sigma_1(x) ==
  bits_word(sum_even_bits(spread_sum(
    <<spread_bits(rotr(x, 6)), spread_bits(rotr(x, 11)), spread_bits(rotr(x, 25))>>)))

\* Ch(e,f,g) = P + Q with P = e AND f (odd bits of spread(e) + spread(f)) and
\* Q = (NOT e) AND g (odd bits of spread(NOT e) + spread(g)).
ch(e, f) == bits_word(sum_odd_bits(spread_sum(<<spread_bits(e), spread_bits(f)>>)))
ch_neg(e, g) ==
  bits_word(sum_odd_bits(spread_sum(<<spread_bits(negate(e)), spread_bits(g)>>)))

\* Maj(a,b,c): the odd bits of spread(a) + spread(b) + spread(c).
maj(a, b, c) ==
  bits_word(sum_odd_bits(spread_sum(<<spread_bits(a), spread_bits(b), spread_bits(c)>>)))

\* One round: T1 = h + S1(e) + Ch(e,f,g) + K_t + W_t, T2 = S0(a) + Maj(a,b,c),
\* new state (T1+T2, a, b, c, d+T1, e, f, g).
round_state(s, t1, t2) ==
  <<add_mod_2_32(t1 \o t2), s[1], s[2], s[3], add_mod_2_32(<<s[4]>> \o t1), s[5], s[6], s[7]>>
round_terms(s, a, b, c, e, f, g, k, w) ==
  round_state(s, <<s[8], upper_sigma_1(e), ch(e, f), ch_neg(e, g), k, w>>,
              <<upper_sigma_0(a), maj(a, b, c)>>)
compression_round(s, k, w) ==
  round_terms(s, word_bits(s[1]), word_bits(s[2]), word_bits(s[3]),
              word_bits(s[5]), word_bits(s[6]), word_bits(s[7]), k, w)

\* Rounds from..to (1-based) in ascending order, the range halved at each step
\* and the lower half run first.
round_at(s, w_halves, t) == compression_round(s, ROUND_CONSTANTS[t], w_halves[t])
RECURSIVE compression_rounds(_, _, _, _)
compression_rounds(s, w_halves, from, to) ==
  IF Len(s) # STATE_WORDS THEN s
  ELSE IF from = to THEN round_at(s, w_halves, from)
  ELSE compression_rounds(compression_rounds(s, w_halves, from, (from + to) \div 2),
                          w_halves, ((from + to) \div 2) + 1, to)

\* CompressionConfig::initialize_with_iv(layouter, init_vector): the state
\* whose eight words are the given values.
Compression_initialize_with_iv(init_vector) == init_vector

\* CompressionConfig::initialize_with_state(layouter, init_state): a fresh copy
\* of the given state.
Compression_initialize_with_state(init_state) == init_state

\* CompressionConfig::compress(layouter, initialized_state, w_halves): the
\* state after round 63.
Compression_compress(initialized_state, w_halves) ==
  compression_rounds(initialized_state, w_halves, 1, ROUNDS)

\* CompressionConfig::digest(layouter, state): the eight dense words of the
\* state.  tests::test_sha256_circuit adds IV[idx] to each word it returns
\* before comparing with COMPRESSION_OUTPUT, so the words returned do not
\* include the initialization vector.
Compression_digest(s) == [i \in 1..STATE_WORDS |-> s[i]] \o <<>>

----------------------------------------------------------------------------
(* Chip facade: load, initialise, compress (table16.rs lines 326-375).     *)

\* Table16Chip::load gone wrong: returns without loading the table.
Table16Chip_load_skipped == Len(<<>>)

\* Table16Chip::load(config, layouter)
Table16Chip_load == SpreadTableChip_load

\* Table16Chip::initialization_vector(layouter)
initialization_vector ==
  Compression_initialize_with_iv([i \in 1..STATE_WORDS |-> IV[i]] \o <<>>)

\* Table16Chip::initialization gone wrong: the caller's state is dropped and
\* the engine initialised with the IV.
initialization_ignoring_state(init_state) == initialization_vector

\* Table16Chip::initialization(layouter, init_state)
initialization(init_state) == Compression_initialize_with_state(init_state)

\* tests::test_sha256_circuit: digest_word as u64 + IV[idx] as u64, as u32: the
\* addition the caller of digest performs on each word it gets back.
caller_add(digest_word, iv_word) ==
  LET a == u32_into_u64(digest_word)
      b == u32_into_u64(iv_word)
      l0 == a[1] + b[1]
      l1 == a[2] + b[2] + (l0 \div 65536)
      l2 == a[3] + b[3] + (l1 \div 65536)
      l3 == a[4] + b[4] + (l2 \div 65536)
  IN u64_as_u32(<<l0 % 65536, l1 % 65536, l2 % 65536, l3 % 65536>>)

----------------------------------------------------------------------------
(* Chip configuration (table16.rs lines 276-324) on the host's constraint  *)
(* system (spec section 6).  A column is named by its index among the      *)
(* columns of its kind.                                                    *)

\* ConstraintSystem::default()
FreshSystem ==
  [num_advice_columns |-> 0, num_table_columns |-> 0, equality |-> {},
   lookups |-> <<>>, gates |-> <<>>]

\* meta.advice_column(): the new column's index is the count before the call.
advice_column(meta) == [meta EXCEPT !.num_advice_columns = @ + 1]
\* meta.enable_equality(column)
enable_equality(meta, columns) == [meta EXCEPT !.equality = @ \cup columns]
\* meta.lookup(..): one (input column, table column) pair per table column.
lookup(meta, pairs) == [meta EXCEPT !.lookups = Append(@, pairs)]
\* meta.create_gate(..)
create_gate(meta, gate) == [meta EXCEPT !.gates = Append(@, gate)]

\* SpreadTableChip::configure(meta, input_tag, input_dense, input_spread):
\* reserves the three table columns and registers the lookup of the input
\* triple in them.
SpreadTableChip_configure(meta, input_tag, input_dense, input_spread) ==
  LET t == meta.num_table_columns
      reserved == [meta EXCEPT !.num_table_columns = @ + 3]
  IN [meta |-> lookup(reserved, << [input |-> input_tag, table |-> t],
                                   [input |-> input_dense, table |-> t + 1],
                                   [input |-> input_spread, table |-> t + 2] >>),
      config |-> [input |-> [tag |-> input_tag, dense |-> input_dense,
                             spread |-> input_spread],
                  table |-> [tag |-> t, dense |-> t + 1, spread |-> t + 2]]]

\* The gates an engine registers: the gate library's patterns on the columns
\* the engine is given.
RECURSIVE create_gates(_, _, _, _)
create_gates(meta, engine, names, columns) ==
  IF names = <<>> THEN meta
  ELSE create_gates(create_gate(meta, [engine |-> engine, name |-> Head(names),
                                       columns |-> columns]),
                    engine, Tail(names), columns)

\* CompressionConfig::configure(meta, lookup_inputs, message_schedule, extras)
CompressionConfig_configure(meta, lookup_inputs, message_schedule, extras) ==
  LET columns == <<lookup_inputs.tag, lookup_inputs.dense, lookup_inputs.spread,
                   message_schedule>> \o extras
  IN [meta |-> create_gates(meta, "compression",
                            <<"recombination", "upper_sigma_0", "upper_sigma_1", "ch",
                              "maj", "add_t1_t2", "add_d_t1">>, columns),
      config |-> [lookup |-> lookup_inputs, message_schedule |-> message_schedule,
                  extras |-> extras]]

\* MessageScheduleConfig::configure(meta, lookup_inputs, message_schedule, extras)
MessageScheduleConfig_configure(meta, lookup_inputs, message_schedule, extras) ==
  LET columns == <<lookup_inputs.tag, lookup_inputs.dense, lookup_inputs.spread,
                   message_schedule>> \o extras
  IN [meta |-> create_gates(meta, "message_schedule",
                            <<"recombination", "sigma_0", "sigma_1", "add_word">>, columns),
      config |-> [lookup |-> lookup_inputs, message_schedule |-> message_schedule,
                  extras |-> extras]]

\* Table16Chip::configure, lines 277-291: the ten advice columns, in the
\* order they are allocated.
Table16Chip_columns(meta) ==
  [message_schedule |-> meta.num_advice_columns,
   extras |-> [i \in 1..6 |-> meta.num_advice_columns + i] \o <<>>,
   input_tag |-> meta.num_advice_columns + 7,
   input_dense |-> meta.num_advice_columns + 8,
   input_spread |-> meta.num_advice_columns + 9]

\* Line 293 gone wrong: the table columns are reserved and the configuration
\* returned, but the lookup of the input columns is not registered.
Table16Chip_lookup_unregistered(meta, columns) ==
  [meta |-> [meta EXCEPT !.num_table_columns = @ + 3],
   config |-> SpreadTableChip_configure(meta, columns.input_tag, columns.input_dense,
                                        columns.input_spread).config]

\* Table16Chip::configure, line 293:
\*   let lookup = SpreadTableChip::configure(meta, input_tag, input_dense, input_spread);
Table16Chip_lookup(meta, columns) ==
  SpreadTableChip_configure(meta, columns.input_tag, columns.input_dense,
                            columns.input_spread)

\* Table16Chip::configure, lines 296-311: the columns a_1 .. a_8 added to the
\* permutation.
Table16Chip_permutation(lookup_inputs, message_schedule, extras) ==
  {lookup_inputs.dense, lookup_inputs.spread, extras[1], extras[2], message_schedule,
   extras[3], extras[4], extras[5]}

\* Table16Chip::configure, lines 313-323, given the lookup's configuration.
Table16Chip_engines(looked_up, columns) ==
  LET lookup_inputs == looked_up.config.input
      permuted == enable_equality(looked_up.meta,
                                  Table16Chip_permutation(lookup_inputs,
                                                          columns.message_schedule,
                                                          columns.extras))
      compression == CompressionConfig_configure(permuted, lookup_inputs,
                                                 columns.message_schedule, columns.extras)
      message_schedule ==
        MessageScheduleConfig_configure(compression.meta, lookup_inputs,
                                        columns.message_schedule, columns.extras)
  IN [meta |-> message_schedule.meta,
      config |-> [lookup |-> looked_up.config,
                  message_schedule |-> message_schedule.config,
                  compression |-> compression.config]]

\* Table16Chip::configure(meta): the constraint system after the call and the
\* Table16Config returned.
Table16Chip_configure(meta) ==
  Table16Chip_engines(
    Table16Chip_lookup([meta EXCEPT !.num_advice_columns = @ + 10],
                       Table16Chip_columns(meta)),
    Table16Chip_columns(meta))

----------------------------------------------------------------------------
(* Cell assignment (table16.rs lines 123-235) in a region of the host's    *)
(* grid (spec section 6).  A region is the set of its assigned cells       *)
(* [column, offset, value]; a value is [known, bits].                      *)

NoCell == [column |-> "none", offset |-> 0]

\* The outcome of a call that panicked: nothing is returned, the region is as
\* it was.
Panicked(message, reg) ==
  [outcome |-> "panic", message |-> message, region |-> reg, cell |-> NoCell]

\* region.assign_advice(..) / region.assign_fixed(..): the backend either
\* assigns the cell and returns its handle, or returns an error of its own.
region_assign(reg, column, offset, value, backend) ==
  IF backend = "Ok"
  THEN [outcome |-> "Ok", message |-> "",
        region |-> {c \in reg : ~(c.column = column /\ c.offset = offset)}
                     \cup {[column |-> column, offset |-> offset, value |-> value]},
        cell |-> [column |-> column, offset |-> offset]]
  ELSE [outcome |-> "Err", message |-> backend, region |-> reg, cell |-> NoCell]

\* assign_bits gone wrong: the match's last arm assigns instead of panicking.
AssignedBits_assign_bits_any_column(LEN, reg, column, offset, value, backend) ==
  IF value.known /\ Len(value.bits) # LEN
  THEN Panicked("called Result::unwrap() on an Err value", reg)
  ELSE region_assign(reg, column, offset, value, backend)

\* AssignedBits::<LEN>::assign_bits(region, annotation, column, offset, value):
\* a known value is converted to [bool; LEN] first (try_into().unwrap()), then
\* the column's kind selects the assignment.
AssignedBits_assign_bits(LEN, reg, column, offset, value, backend) ==
  IF value.known /\ Len(value.bits) # LEN
  THEN Panicked("called Result::unwrap() on an Err value", reg)
  ELSE IF column = "Advice" THEN region_assign(reg, column, offset, value, backend)
  ELSE IF column = "Fixed" THEN region_assign(reg, column, offset, value, backend)
  ELSE Panicked("Cannot assign to instance column", reg)

\* Value<u16> / Value<u32> mapped to Value<Bits<16>> / Value<Bits<32>>.
value_bits16(value) ==
  [known |-> value.known,
   bits |-> IF value.known THEN From_u16_for_Bits16(value.int) ELSE <<>>]
value_bits32(value) ==
  [known |-> value.known,
   bits |-> IF value.known THEN From_u32_for_Bits32(value.int) ELSE <<>>]

\* AssignedBits::<16>::assign(region, annotation, column, offset, value)
AssignedBits16_assign(reg, column, offset, value, backend) ==
  IF column = "Advice" THEN region_assign(reg, column, offset, value_bits16(value), backend)
  ELSE IF column = "Fixed"
  THEN region_assign(reg, column, offset, value_bits16(value), backend)
  ELSE Panicked("Cannot assign to instance column", reg)

\* AssignedBits::<32>::assign(region, annotation, column, offset, value)
AssignedBits32_assign(reg, column, offset, value, backend) ==
  IF column = "Advice" THEN region_assign(reg, column, offset, value_bits32(value), backend)
  ELSE IF column = "Fixed"
  THEN region_assign(reg, column, offset, value_bits32(value), backend)
  ELSE Panicked("Cannot assign to instance column", reg)

----------------------------------------------------------------------------
(* Records of the flow.                                                    *)

\* The record of one call of Table16Chip::compress: the state the caller asked
\* the chip to initialise with (given), its input, what
\* message_schedule.process returned, what compression.compress was given,
\* and what the call returned.
NoSchedule == [ok |-> FALSE, w_halves |-> <<>>, assigned_inputs |-> <<>>]
NoReturn == [kind |-> "none", error |-> "", state |-> <<>>, assigned_inputs |-> <<>>]
NoCall ==
  [given |-> <<>>, input |-> <<>>, caller_state |-> <<>>, schedule_ran |-> FALSE, schedule |-> NoSchedule,
   engine_ran |-> FALSE, engine_state |-> <<>>, engine_w_halves |-> <<>>, ret |-> NoReturn]

----------------------------------------------------------------------------
(* Bounds and the inputs drawn from them.                                  *)

\* Blocks compressed in one run (1: a single block; 2: two chained blocks).
MaxBlocks == 2
\* How many of the sample blocks / caller-supplied states a run may use.
NumBlockSamples == 2
NumStateSamples == 1

PatternWord(n, i) == <<(n * i * 4099 + 17 * n) % 65536, (n * 257 + i * 12345) % 65536>>

BlockSample(n) ==
  IF n = 1 THEN msg_schedule_test_input
  ELSE IF n = 2 THEN [i \in 1..BLOCK_SIZE |-> U32(0, 0)] \o <<>>
  ELSE IF n = 3 THEN [i \in 1..BLOCK_SIZE |-> U32(65535, 65535)] \o <<>>
  ELSE [i \in 1..BLOCK_SIZE |-> PatternWord(n, i)] \o <<>>

StateSample(n) ==
  IF n = 1 THEN [i \in 1..STATE_WORDS |-> U32(65535, 65535)] \o <<>>
  ELSE IF n = 2 THEN [i \in 1..STATE_WORDS |-> U32(0, 0)] \o <<>>
  ELSE [i \in 1..STATE_WORDS |-> PatternWord(n + 7, i)] \o <<>>

BlockSamples == {BlockSample(n) : n \in 1..NumBlockSamples}
StateSamples == {StateSample(n) : n \in 1..NumStateSamples}

----------------------------------------------------------------------------
(* State shared by the specifications: each one moves its own variables    *)
(* and leaves the others at their idle values.                             *)

codecVars == <<cin, cout>>
configVars == <<cs, configs, synthesized>>
lookupVars == <<lookup_rows, verdict>>
assignVars == <<region, result>>
flowVars == <<phase, state, initialized, blocks, call, digest_words, caller_words>>

NoConversion == [op |-> "none", width |-> 0, ok |-> TRUE, bits |-> <<>>, int |-> <<>>]
NoResult ==
  [fn |-> "none", len |-> 0, column |-> "none", offset |-> 0,
   value |-> [known |-> FALSE, bits |-> <<>>], backend |-> "none",
   outcome |-> "none", message |-> "", cell |-> [column |-> "none", offset |-> 0]]

CodecIdle == cin = <<0, 0, 0, 0>> /\ cout = NoConversion
ConfigIdle == cs = <<>> /\ configs = <<>> /\ synthesized = <<>>
LookupIdle == lookup_rows = <<>> /\ verdict = "none"
AssignIdle == region = {} /\ result = NoResult
FlowIdle ==
  /\ phase = "created"
  /\ state = <<>>
  /\ initialized = <<>>
  /\ blocks = <<>>
  /\ call = NoCall
  /\ digest_words = <<>>
  /\ caller_words = <<>>

----------------------------------------------------------------------------
(* The chip's flow in a circuit's synthesize: load, initialise, compress,  *)
(* digest (table16.rs lines 326-370 and the test's synthesize, 482-501).   *)

\* Table16Chip::load(config.clone(), &mut layouter)
Load ==
  /\ phase = "created"
  /\ table_rows' = Table16Chip_load
  /\ phase' = "loaded"
  /\ UNCHANGED <<state, initialized, blocks, call, digest_words, caller_words>>
  /\ UNCHANGED <<codecVars, configVars, lookupVars, assignVars>>

\* let state = table16_chip.initialization_vector(&mut layouter)?
InitializationVector ==
  /\ phase = "loaded"
  /\ initialized' = initialization_vector
  /\ call' = [NoCall EXCEPT !.given = IV]
  /\ phase' = "initialized"
  /\ UNCHANGED <<state, blocks, digest_words, caller_words>>
  /\ UNCHANGED <<table_rows, codecVars, configVars, lookupVars, assignVars>>

\* The states a caller can pass to initialization: a state of its own at the
\* start, the state the last compress returned, or the state holding the words
\* it obtained by adding the initial state to the digest words.
CallerStates ==
  IF phase = "loaded" THEN StateSamples
  ELSE IF phase = "compressed" /\ Len(blocks) < MaxBlocks THEN {state}
  ELSE IF phase = "added" /\ Len(blocks) < MaxBlocks THEN {caller_words}
  ELSE {}

\* table16_chip.initialization(&mut layouter, &init_state)?
Initialization(init_state) ==
  /\ init_state \in CallerStates
  /\ initialized' = initialization(init_state)
  /\ phase' = "initialized"
  /\ state' = <<>>
  /\ call' = [NoCall EXCEPT !.given = init_state]
  /\ digest_words' = <<>>
  /\ caller_words' = <<>>
  /\ UNCHANGED blocks
  /\ UNCHANGED <<table_rows, codecVars, configVars, lookupVars, assignVars>>

\* Line 365 gone wrong: the error of message_schedule.process is dropped and
\* the call goes on to the compression engine.
CompressSchedule_ignoring_error(input, schedule_ok) ==
  /\ phase = "initialized"
  /\ call' =
       [NoCall EXCEPT
          !.given = call.given,
          !.input = input,
          !.caller_state = initialized,
          !.schedule_ran = TRUE,
          !.schedule = [ok |-> schedule_ok,
                        w_halves |-> MessageSchedule_process(input).w_halves,
                        assigned_inputs |-> MessageSchedule_process(input).assigned_inputs]]
  /\ phase' = "scheduled"
  /\ UNCHANGED <<state, initialized, blocks, digest_words, caller_words>>
  /\ UNCHANGED <<table_rows, codecVars, configVars, lookupVars, assignVars>>

\* Table16Chip::compress, line 365:
\*   let (_, w_halves, assigned_inputs) = config.message_schedule.process(layouter, input)?;
\* schedule_ok is whether the layouter let the message schedule region be assigned.
schedule_outcome(processed, schedule_ok) ==
  IF schedule_ok
  THEN [ok |-> TRUE, w_halves |-> processed.w_halves,
        assigned_inputs |-> processed.assigned_inputs]
  ELSE NoSchedule
CompressSchedule(input, schedule_ok) ==
  /\ phase = "initialized"
  /\ call' =
       [NoCall EXCEPT
          !.given = call.given,
          !.input = input,
          !.caller_state = initialized,
          !.schedule_ran = TRUE,
          !.schedule = schedule_outcome(MessageSchedule_process(input), schedule_ok),
          !.ret = IF schedule_ok THEN NoReturn
                  ELSE [NoReturn EXCEPT !.kind = "Err", !.error = "message_schedule"]]
  /\ phase' = IF schedule_ok THEN "scheduled" ELSE "failed"
  /\ UNCHANGED <<state, initialized, blocks, digest_words, caller_words>>
  /\ UNCHANGED <<table_rows, codecVars, configVars, lookupVars, assignVars>>

\* Lines 366-369 gone wrong: the engine is started from the IV instead of the
\* caller's initialized state.
CompressEngine_from_iv(engine_ok) ==
  /\ phase = "scheduled"
  /\ call' =
       [call EXCEPT
          !.engine_ran = TRUE,
          !.engine_state = initialization_vector,
          !.engine_w_halves = call.schedule.w_halves,
          !.ret = IF engine_ok
                  THEN [kind |-> "Ok", error |-> "",
                        state |-> Compression_compress(initialization_vector,
                                                       call.schedule.w_halves),
                        assigned_inputs |-> call.schedule.assigned_inputs]
                  ELSE [NoReturn EXCEPT !.kind = "Err", !.error = "compression"]]
  /\ state' = IF engine_ok THEN call'.ret.state ELSE state
  /\ blocks' = IF engine_ok
               THEN Append(blocks, [given |-> call.given, init |-> initialized,
                                    block |-> call.input,
                                    out |-> call'.ret.state])
               ELSE blocks
  /\ phase' = IF engine_ok THEN "compressed" ELSE "failed"
  /\ UNCHANGED <<initialized, digest_words, caller_words>>
  /\ UNCHANGED <<table_rows, codecVars, configVars, lookupVars, assignVars>>

\* Table16Chip::compress, lines 366-369:
\*   let state = config.compression.compress(layouter, initialized_state.clone(), w_halves)?;
\*   Ok((state, assigned_inputs))
compress_return(final, engine_ok) ==
  IF engine_ok
  THEN [kind |-> "Ok", error |-> "", state |-> final,
        assigned_inputs |-> call.schedule.assigned_inputs]
  ELSE [NoReturn EXCEPT !.kind = "Err", !.error = "compression"]
CompressEngine(engine_ok) ==
  /\ phase = "scheduled"
  /\ call' =
       [call EXCEPT
          !.engine_ran = TRUE,
          !.engine_state = initialized,
          !.engine_w_halves = call.schedule.w_halves,
          !.ret = compress_return(Compression_compress(initialized, call.schedule.w_halves),
                                  engine_ok)]
  /\ state' = IF engine_ok THEN call'.ret.state ELSE state
  /\ blocks' = IF engine_ok
               THEN Append(blocks, [given |-> call.given, init |-> initialized,
                                    block |-> call.input,
                                    out |-> call'.ret.state])
               ELSE blocks
  /\ phase' = IF engine_ok THEN "compressed" ELSE "failed"
  /\ UNCHANGED <<initialized, digest_words, caller_words>>
  /\ UNCHANGED <<table_rows, codecVars, configVars, lookupVars, assignVars>>

\* The digest step gone wrong: the block's initial state is added to the words
\* before they are returned.
Digest_adding_initial_state ==
  /\ phase = "compressed"
  /\ digest_words' =
       [i \in 1..STATE_WORDS |-> caller_add(Compression_digest(state)[i], initialized[i])]
         \o <<>>
  /\ phase' = "digested"
  /\ UNCHANGED <<state, initialized, blocks, call, caller_words>>
  /\ UNCHANGED <<table_rows, codecVars, configVars, lookupVars, assignVars>>

\* let digest = config.compression.digest(&mut layouter, state)?
Digest ==
  /\ phase = "compressed"
  /\ digest_words' = Compression_digest(state)
  /\ phase' = "digested"
  /\ UNCHANGED <<state, initialized, blocks, call, caller_words>>
  /\ UNCHANGED <<table_rows, codecVars, configVars, lookupVars, assignVars>>

\* The caller's addition of the block's initial state to each digest word (the
\* test adds IV[idx], the state it initialised with).
CallerAdd ==
  /\ phase = "digested"
  /\ caller_words' =
       [i \in 1..STATE_WORDS |-> caller_add(digest_words[i], initialized[i])] \o <<>>
  /\ phase' = "added"
  /\ UNCHANGED <<state, initialized, blocks, call, digest_words>>
  /\ UNCHANGED <<table_rows, codecVars, configVars, lookupVars, assignVars>>

Init ==
  /\ table_rows = 0
  /\ FlowIdle
  /\ CodecIdle
  /\ ConfigIdle
  /\ LookupIdle
  /\ AssignIdle

Next ==
  \/ Load
  \/ InitializationVector
  \/ \E init_state \in CallerStates : Initialization(init_state)
  \/ \E input \in BlockSamples, schedule_ok \in BOOLEAN : CompressSchedule(input, schedule_ok)
  \/ \E engine_ok \in BOOLEAN : CompressEngine(engine_ok)
  \/ Digest
  \/ CallerAdd

Spec == Init /\ [][Next]_vars

----------------------------------------------------------------------------
(* The codec's conversions applied to sampled inputs (table16.rs lines     *)
(* 66-70 and 99-121).                                                      *)

\* The u64 inputs: every combination of the sampled 16-bit limbs, so that
\* values below 2^16, between 2^16 and 2^32, and above 2^32 all occur.
LowLimbSamples == {0, 1, 2, 255, 21845, 32768, 43981, 65535}
MidLimbSamples == {0, 1, 32768, 65535}
HighLimbSamples == {0, 1}
TopLimbSamples == {0, 32768}
CodecInputs ==
  {<<l0, l1, l2, l3>> : l0 \in LowLimbSamples, l1 \in MidLimbSamples,
                        l2 \in HighLimbSamples, l3 \in TopLimbSamples}

\* Whether a u64 is the widening of a u16 / of a u32 (the values the typed
\* conversions can be given).
IsU16(int) == int[2] = 0 /\ int[3] = 0 /\ int[4] = 0
IsU32(int) == int[3] = 0 /\ int[4] = 0

\* i2lebsp::<NUM_BITS>(cin)
I2lebsp(NUM_BITS) ==
  /\ cout' = [op |-> "i2lebsp", width |-> NUM_BITS, ok |-> i2lebsp(NUM_BITS, cin).ok,
              bits |-> i2lebsp(NUM_BITS, cin).bits, int |-> <<>>]
  /\ UNCHANGED <<cin, table_rows, configVars, lookupVars, assignVars, flowVars>>

\* u16::from(&Bits::<16>::from(x)) for the u16 x
ConvertU16 ==
  /\ IsU16(cin)
  /\ cout' = [op |-> "u16", width |-> 16, ok |-> TRUE,
              bits |-> From_u16_for_Bits16(u64_as_u16(cin)),
              int |-> u16_into_u64(From_Bits16_for_u16(From_u16_for_Bits16(u64_as_u16(cin))))]
  /\ UNCHANGED <<cin, table_rows, configVars, lookupVars, assignVars, flowVars>>

\* u32::from(&Bits::<32>::from(x)) for the u32 x
ConvertU32 ==
  /\ IsU32(cin)
  /\ cout' = [op |-> "u32", width |-> 32, ok |-> TRUE,
              bits |-> From_u32_for_Bits32(u64_as_u32(cin)),
              int |-> u32_into_u64(From_Bits32_for_u32(From_u32_for_Bits32(u64_as_u32(cin))))]
  /\ UNCHANGED <<cin, table_rows, configVars, lookupVars, assignVars, flowVars>>

\* Bits::<16>::from(x).spread::<32>() for the u16 x
Spread ==
  /\ IsU16(cin)
  /\ cout' = [op |-> "spread", width |-> 16, ok |-> TRUE,
              bits |-> Bits_spread(From_u16_for_Bits16(u64_as_u16(cin))),
              int |-> lebs2ip(Bits_spread(From_u16_for_Bits16(u64_as_u16(cin))))]
  /\ UNCHANGED <<cin, table_rows, configVars, lookupVars, assignVars, flowVars>>

InitCodec ==
  /\ cin \in CodecInputs
  /\ cout = NoConversion
  /\ table_rows = 0
  /\ FlowIdle
  /\ ConfigIdle
  /\ LookupIdle
  /\ AssignIdle

NextCodec ==
  \/ \E NUM_BITS \in {16, 32} : I2lebsp(NUM_BITS)
  \/ ConvertU16
  \/ ConvertU32
  \/ Spread

SpecCodec == InitCodec /\ [][NextCodec]_vars

----------------------------------------------------------------------------
(* Circuit::configure on several constraint systems, and the witness runs  *)
(* that follow it (table16.rs lines 276-324; the test's configure and      *)
(* synthesize, lines 478-501).                                             *)

\* Constraint systems configured side by side.
NumSystems == 2
\* Advice columns the outer circuit may allocate before it configures the chip.
MaxOuterColumns == 2
\* Witness inputs a configured circuit may be synthesized with.
NumWitnesses == 3

NoTable16Config == [lookup |-> <<>>, message_schedule |-> <<>>, compression |-> <<>>]
NoConfig == [configured |-> FALSE, fresh |-> FALSE, config |-> NoTable16Config]

\* The outer circuit allocates a column of its own before configuring the chip.
OuterAdviceColumn(i) ==
  /\ ~configs[i].configured
  /\ cs[i].num_advice_columns < MaxOuterColumns
  /\ cs' = [cs EXCEPT ![i] = advice_column(@)]
  /\ UNCHANGED <<configs, synthesized>>
  /\ UNCHANGED <<table_rows, codecVars, lookupVars, assignVars, flowVars>>

\* configure gone wrong: it allocates a further column once any circuit has
\* been synthesized with a witness.
Configure_reading_witness(i) ==
  /\ ~configs[i].configured
  /\ cs' = [cs EXCEPT ![i] =
              Table16Chip_configure(IF \E k \in 1..Len(synthesized) : synthesized[k] # 0
                                    THEN advice_column(cs[i]) ELSE cs[i]).meta]
  /\ configs' = [configs EXCEPT ![i] =
                   [configured |-> TRUE,
                    fresh |-> cs[i] = FreshSystem,
                    config |-> Table16Chip_configure(
                                 IF \E k \in 1..Len(synthesized) : synthesized[k] # 0
                                 THEN advice_column(cs[i]) ELSE cs[i]).config]]
  /\ UNCHANGED synthesized
  /\ UNCHANGED <<table_rows, codecVars, lookupVars, assignVars, flowVars>>

\* fn configure(meta) -> Self::Config { Table16Chip::configure(meta) }
Configure(i) ==
  /\ ~configs[i].configured
  /\ cs' = [cs EXCEPT ![i] = Table16Chip_configure(cs[i]).meta]
  /\ configs' = [configs EXCEPT ![i] = [configured |-> TRUE,
                                        fresh |-> cs[i] = FreshSystem,
                                        config |-> Table16Chip_configure(cs[i]).config]]
  /\ UNCHANGED synthesized
  /\ UNCHANGED <<table_rows, codecVars, lookupVars, assignVars, flowVars>>

\* MockProver::run(k, &circuit, ..): a witness run of the configured circuit on
\* witness input number n; the configuration is reused as it is.
Synthesize(i, n) ==
  /\ configs[i].configured
  /\ synthesized' = [synthesized EXCEPT ![i] = n]
  /\ UNCHANGED <<cs, configs>>
  /\ UNCHANGED <<table_rows, codecVars, lookupVars, assignVars, flowVars>>

InitConfigure ==
  /\ cs = [i \in 1..NumSystems |-> FreshSystem] \o <<>>
  /\ configs = [i \in 1..NumSystems |-> NoConfig] \o <<>>
  /\ synthesized = [i \in 1..NumSystems |-> 0] \o <<>>
  /\ table_rows = 0
  /\ FlowIdle
  /\ CodecIdle
  /\ LookupIdle
  /\ AssignIdle

NextConfigure ==
  \/ \E i \in 1..NumSystems : OuterAdviceColumn(i)
  \/ \E i \in 1..NumSystems : Configure(i)
  \/ \E i \in 1..NumSystems, n \in 1..NumWitnesses : Synthesize(i, n)

SpecConfigure == InitConfigure /\ [][NextConfigure]_vars

----------------------------------------------------------------------------
(* The lookup argument on a configured and loaded chip: witness rows in    *)
(* the lookup's input columns, and the backend's verification (spec        *)
(* sections 4.2 and 7; table16.rs lines 288-294, 326-329, 399-419).        *)

\* Witness rows written to the lookup's input columns in one run.
MaxLookupRows == 2

\* Half-words an honest prover looks up.
DenseSamples == {43981, 65535}
\* Field elements a corrupted witness holds in the tag, dense and spread cells.
CorruptTags == {0, 2}
CorruptDense == {65535, 65536, 1000000}
CorruptSpread == {0, 1431655765}

\* A row of the advice columns holding (tag, dense, spread) in the lookup's
\* input columns and zero elsewhere.
AdviceRow(meta, inputs, word) ==
  [c \in 1..meta.num_advice_columns |->
     IF c - 1 = inputs.tag THEN word[1]
     ELSE IF c - 1 = inputs.dense THEN word[2]
     ELSE IF c - 1 = inputs.spread THEN word[3]
     ELSE 0] \o <<>>

\* The cell of row i of the loaded table in the given table column.
TableCell(tbl, i, column) ==
  IF column = tbl.tag THEN SpreadTable_generate[i][1]
  ELSE IF column = tbl.dense THEN SpreadTable_generate[i][2]
  ELSE SpreadTable_generate[i][3]

\* The backend's lookup check: every witness row, read in the input columns
\* of each registered lookup, equals some row of the table.
LookupSatisfied(meta, tbl, rows) ==
  \A r \in 1..Len(rows) : \A l \in 1..Len(meta.lookups) :
    \E i \in 1..table_rows :
      \A p \in 1..Len(meta.lookups[l]) :
        rows[r][meta.lookups[l][p].input + 1] = TableCell(tbl, i, meta.lookups[l][p].table)

\* SpreadVar::with_lookup(region, lookup, row, SpreadWord::new(bits)) for the
\* bits of the half-word dense.
WithLookup(dense) ==
  /\ phase = "loaded"
  /\ verdict = "none"
  /\ Len(lookup_rows) < MaxLookupRows
  /\ lookup_rows' = Append(lookup_rows,
                           AdviceRow(cs[1], configs[1].config.lookup.input,
                                     SpreadWord_new(From_u16_for_Bits16(dense))))
  /\ UNCHANGED <<table_rows, verdict, codecVars, configVars, assignVars, flowVars>>

\* A corrupted witness: arbitrary field elements in the three input cells.
CorruptRow(tag, dense, spread) ==
  /\ phase = "loaded"
  /\ verdict = "none"
  /\ Len(lookup_rows) < MaxLookupRows
  /\ lookup_rows' = Append(lookup_rows,
                           AdviceRow(cs[1], configs[1].config.lookup.input,
                                     <<tag, dense, spread>>))
  /\ UNCHANGED <<table_rows, verdict, codecVars, configVars, assignVars, flowVars>>

\* prover.verify()
Verify ==
  /\ phase = "loaded"
  /\ verdict = "none"
  /\ verdict' = IF LookupSatisfied(cs[1], configs[1].config.lookup.table, lookup_rows)
                THEN "ok" ELSE "lookup_unsatisfied"
  /\ UNCHANGED <<table_rows, lookup_rows, codecVars, configVars, assignVars, flowVars>>

InitLookup ==
  /\ cs = <<Table16Chip_configure(FreshSystem).meta>>
  /\ configs = <<[configured |-> TRUE, fresh |-> TRUE,
                  config |-> Table16Chip_configure(FreshSystem).config]>>
  /\ synthesized = <<0>>
  /\ table_rows = 0
  /\ FlowIdle
  /\ CodecIdle
  /\ LookupIdle
  /\ AssignIdle

NextLookup ==
  \/ Load
  \/ \E dense \in DenseSamples : WithLookup(dense)
  \/ \E tag \in CorruptTags, dense \in CorruptDense, spread \in CorruptSpread :
       CorruptRow(tag, dense, spread)
  \/ Verify

SpecLookup == InitLookup /\ [][NextLookup]_vars

----------------------------------------------------------------------------
(* Calls of the assignment helpers on one region (table16.rs lines         *)
(* 135-235).                                                               *)

\* The largest offset assigned to.
MaxOffset == 1

ColumnKinds == {"Advice", "Fixed", "Instance"}
BackendOutcomes == {"Ok", "Synthesis"}

\* The values handed to assign_bits::<LEN>: unknown, LEN bits, and a bit
\* vector one bit short.
BitsOfLength(n) == [i \in 1..n |-> (i % 3) = 1] \o <<>>
BitValues(LEN) ==
  {[known |-> FALSE, bits |-> <<>>],
   [known |-> TRUE, bits |-> BitsOfLength(LEN)],
   [known |-> TRUE, bits |-> BitsOfLength(LEN - 1)]}
\* The values handed to the typed assign functions: unknown, and the integers
\* whose bits are BitsOfLength(16) and BitsOfLength(32).
U16Values == {[known |-> FALSE, int |-> 0], [known |-> TRUE, int |-> 37449]}
U32Values == {[known |-> FALSE, int |-> <<0, 0>>], [known |-> TRUE, int |-> <<37449, 18724>>]}

\* The record of a call and of what came of it.
call_result(fn, LEN, column, offset, value, backend, r) ==
  [fn |-> fn, len |-> LEN, column |-> column, offset |-> offset, value |-> value,
   backend |-> backend, outcome |-> r.outcome, message |-> r.message, cell |-> r.cell]

AssignBits(LEN, column, offset, value, backend) ==
  /\ result.outcome # "panic"
  /\ region' = AssignedBits_assign_bits(LEN, region, column, offset, value, backend).region
  /\ result' = call_result("assign_bits", LEN, column, offset, value, backend,
                           AssignedBits_assign_bits(LEN, region, column, offset, value,
                                                    backend))
  /\ UNCHANGED <<table_rows, codecVars, configVars, lookupVars, flowVars>>

Assign16(column, offset, value, backend) ==
  /\ result.outcome # "panic"
  /\ region' = AssignedBits16_assign(region, column, offset, value, backend).region
  /\ result' = call_result("assign16", 16, column, offset, value_bits16(value), backend,
                           AssignedBits16_assign(region, column, offset, value, backend))
  /\ UNCHANGED <<table_rows, codecVars, configVars, lookupVars, flowVars>>

Assign32(column, offset, value, backend) ==
  /\ result.outcome # "panic"
  /\ region' = AssignedBits32_assign(region, column, offset, value, backend).region
  /\ result' = call_result("assign32", 32, column, offset, value_bits32(value), backend,
                           AssignedBits32_assign(region, column, offset, value, backend))
  /\ UNCHANGED <<table_rows, codecVars, configVars, lookupVars, flowVars>>

InitAssign ==
  /\ region = {}
  /\ result = NoResult
  /\ table_rows = 0
  /\ FlowIdle
  /\ CodecIdle
  /\ ConfigIdle
  /\ LookupIdle

NextAssign ==
  \/ \E LEN \in {16, 32}, column \in ColumnKinds, offset \in 0..MaxOffset,
        backend \in BackendOutcomes :
       \E value \in BitValues(LEN) : AssignBits(LEN, column, offset, value, backend)
  \/ \E column \in ColumnKinds, offset \in 0..MaxOffset, value \in U16Values,
        backend \in BackendOutcomes : Assign16(column, offset, value, backend)
  \/ \E column \in ColumnKinds, offset \in 0..MaxOffset, value \in U32Values,
        backend \in BackendOutcomes : Assign32(column, offset, value, backend)

SpecAssign == InitAssign /\ [][NextAssign]_vars

----------------------------------------------------------------------------
(* Reference SHA-256 (FIPS 180-4; spec section 4.4 and 4.5), on words kept *)
(* as 32 booleans, least significant first, with bitwise logic and limb    *)
(* addition.  It is what the claims about the flow compare the chip with   *)
(* and shares nothing with the chip's engines above.                       *)

RefBits(w) ==
  [i \in 1..32 |-> ((w[((i - 1) \div 16) + 1] \div (2 ^ ((i - 1) % 16))) % 2) = 1] \o <<>>

RefBit(x, i) == IF x[i] THEN 1 ELSE 0
RefNibble(x, i) ==
  (RefBit(x, i) + 2 * RefBit(x, i + 1)) + (4 * RefBit(x, i + 2) + 8 * RefBit(x, i + 3))
RefHalf(x, i) ==
  (RefNibble(x, i) + 16 * RefNibble(x, i + 4))
    + (256 * RefNibble(x, i + 8) + 4096 * RefNibble(x, i + 12))
RefWord(x) == <<RefHalf(x, 1), RefHalf(x, 17)>>

RefRotr(x, n) == [i \in 1..32 |-> x[((i + n - 1) % 32) + 1]] \o <<>>
RefShr(x, n) == [i \in 1..32 |-> (i + n <= 32) /\ x[((i + n - 1) % 32) + 1]] \o <<>>
RefXor3(x, y, z) == [i \in 1..32 |-> (x[i] # y[i]) # z[i]] \o <<>>
RefCh(e, f, g) == [i \in 1..32 |-> (e[i] /\ f[i]) # (~e[i] /\ g[i])] \o <<>>
RefMaj(a, b, c) ==
  [i \in 1..32 |-> ((a[i] /\ b[i]) # (a[i] /\ c[i])) # (b[i] /\ c[i])] \o <<>>

\* The sum mod 2^32 of up to five words: their 16-bit limbs are added, the
\* low limbs' carry going into the high limb and the high limbs' carry being
\* dropped.
RefLimb(xs, i, from) == IF i <= Len(xs) THEN RefHalf(xs[i], from) ELSE 0
RefLimbSum(xs, from) ==
  ((RefLimb(xs, 1, from) + RefLimb(xs, 2, from))
     + (RefLimb(xs, 3, from) + RefLimb(xs, 4, from))) + RefLimb(xs, 5, from)
RefAddLimbs(lo, hi) == <<lo % 65536, (hi + (lo \div 65536)) % 65536>>
RefSum(xs) == RefBits(RefAddLimbs(RefLimbSum(xs, 1), RefLimbSum(xs, 17)))

RefSmallSigma0(x) == RefXor3(RefRotr(x, 7), RefRotr(x, 18), RefShr(x, 3))
RefSmallSigma1(x) == RefXor3(RefRotr(x, 17), RefRotr(x, 19), RefShr(x, 10))
RefBigSigma0(x) == RefXor3(RefRotr(x, 2), RefRotr(x, 13), RefRotr(x, 22))
RefBigSigma1(x) == RefXor3(RefRotr(x, 6), RefRotr(x, 11), RefRotr(x, 25))

\* W_t = sigma1(W_{t-2}) + W_{t-7} + sigma0(W_{t-15}) + W_{t-16}; with W_0 at
\* position 1, the next word of a schedule of length n sits at position n + 1.
RefNextWord(w, n) ==
  RefSum(<<RefSmallSigma1(w[n - 1]), w[n - 6], RefSmallSigma0(w[n - 14]), w[n - 15]>>)
\* The schedule extended by the words at positions from..to, the lower half
\* of the range first.
RECURSIVE RefSchedule(_, _, _)
RefSchedule(w, from, to) ==
  IF Len(w) # from - 1 THEN w
  ELSE IF from = to THEN Append(w, RefNextWord(w, Len(w)))
  ELSE RefSchedule(RefSchedule(w, from, (from + to) \div 2), ((from + to) \div 2) + 1, to)

RefRoundState(s, t1, t2) ==
  <<RefSum(<<t1, t2>>), s[1], s[2], s[3], RefSum(<<s[4], t1>>), s[5], s[6], s[7]>>
RefRound(s, k, w) ==
  RefRoundState(s,
    RefSum(<<s[8], RefBigSigma1(s[5]), RefCh(s[5], s[6], s[7]), k, w>>),
    RefSum(<<RefBigSigma0(s[1]), RefMaj(s[1], s[2], s[3])>>))

RefRoundAt(s, w, t) == RefRound(s, RefBits(ROUND_CONSTANTS[t]), w[t])
\* Rounds from..to, the lower half of the range first.
RECURSIVE RefRoundsFrom(_, _, _, _)
RefRoundsFrom(s, w, from, to) ==
  IF Len(s) # 8 \/ Len(w) # 64 THEN s
  ELSE IF from = to THEN RefRoundAt(s, w, from)
  ELSE RefRoundsFrom(RefRoundsFrom(s, w, from, (from + to) \div 2), w,
                     ((from + to) \div 2) + 1, to)

RefWords(xs) == [i \in 1..Len(xs) |-> RefWord(xs[i])] \o <<>>
RefBitsOf(ws) == [i \in 1..Len(ws) |-> RefBits(ws[i])] \o <<>>

\* The state after the 64 rounds on block B from state S, without the feed-forward.
RefRounds(S, B) ==
  RefWords(RefRoundsFrom(RefBitsOf(S), RefSchedule(RefBitsOf(B), 17, 64), 1, 64))

\* The SHA-256 compression function: the 64 rounds, then the word-wise
\* feed-forward addition of S mod 2^32.
RefFeedForward(S, R) ==
  IF Len(R) # 8 THEN R
  ELSE [i \in 1..8 |-> RefWord(RefSum(<<RefBits(S[i]), RefBits(R[i])>>))] \o <<>>
RefCompress(S, B) == RefFeedForward(S, RefRounds(S, B))

\* The SHA-256 digest of a message of two (already padded) blocks.
RefSha256TwoBlocks(B1, B2) == RefCompress(RefCompress(IV, B1), B2)

----------------------------------------------------------------------------
(* Claims about the flow, checked under Spec.                              *)

LastBlock == blocks[Len(blocks)]
HasDigest == phase \in {"digested", "added"}
DenseWord(w) == w[1] \in 0..65535 /\ w[2] \in 0..65535

\* C1 as stated: for every block B and initial state S, the words digest
\* returns after initialising with S and compressing B equal the reference
\* SHA-256 compression of B from S (64 rounds, then the feed-forward addition).
C1_DigestIsReferenceCompression ==
  HasDigest => digest_words = RefCompress(LastBlock.init, LastBlock.block)

\* C1 as amended: the words digest returns are the state after the 64 rounds;
\* adding S to them word by word mod 2^32 gives the reference compression.
C1_DigestPlusInitialIsReference ==
  HasDigest =>
    /\ LastBlock.init = initialized
    /\ RefFeedForward(LastBlock.init, digest_words)
         = RefCompress(LastBlock.init, LastBlock.block)

C1_Witness ==
  /\ phase = "digested"
  /\ LastBlock.init \in StateSamples
  /\ LastBlock.block = msg_schedule_test_input

\* C2 as stated: word i of what digest returns is (state word i + word i of
\* the initialization vector used) mod 2^32.
C2_DigestIncludesInitialState ==
  HasDigest =>
    \A i \in 1..STATE_WORDS : digest_words[i] = add_mod_2_32(<<state[i], initialized[i]>>)

\* C2 as amended: digest returns the eight words of the state after round 63
\* unchanged, each below 2^32; the addition of the initialization vector is
\* the caller's, and for the test vector it gives COMPRESSION_OUTPUT.
C2_DigestIsStateWords ==
  /\ HasDigest =>
       /\ Len(digest_words) = STATE_WORDS
       /\ \A i \in 1..STATE_WORDS : DenseWord(digest_words[i]) /\ digest_words[i] = state[i]
  /\ (/\ HasDigest
      /\ Len(blocks) = 1
      /\ LastBlock.init = initialization_vector
      /\ LastBlock.block = msg_schedule_test_input)
     => \A i \in 1..STATE_WORDS : caller_add(digest_words[i], IV[i]) = COMPRESSION_OUTPUT[i]

C2_Witness ==
  /\ phase = "digested"
  /\ Len(blocks) = 1
  /\ LastBlock.init = initialization_vector
  /\ LastBlock.block = msg_schedule_test_input

\* Block 1 was started from the IV and the caller passed the state compress
\* returned for block 1 to initialization before block 2.
RawChain ==
  /\ Len(blocks) = 2
  /\ blocks[1].given = IV
  /\ blocks[2].given = blocks[1].out

\* Block 1 was started from the IV and the caller passed (state after block 1
\* + IV) to initialization before block 2.
FeedForwardChain ==
  /\ Len(blocks) = 2
  /\ blocks[1].given = IV
  /\ blocks[2].given = RefFeedForward(IV, blocks[1].out)

\* C3 as stated: passing the round-63 state of block 1 to initialization,
\* compressing block 2 and taking the digest gives the SHA-256 digest of the
\* two-block message.
C3_RawChainIsTwoBlockDigest ==
  (HasDigest /\ RawChain) =>
    digest_words = RefSha256TwoBlocks(blocks[1].block, blocks[2].block)

\* C3 as amended: that chain gives the 64 rounds of block 2 applied to the 64
\* rounds of block 1, with no feed-forward; the two-block digest is obtained
\* when the caller adds each block's initial state to the state after its
\* rounds, starts block 2 from that sum and adds it to block 2's digest words.
C3_ChainNeedsCallerFeedForward ==
  /\ (HasDigest /\ RawChain) =>
       digest_words = RefRounds(RefRounds(IV, blocks[1].block), blocks[2].block)
  /\ (phase = "added" /\ FeedForwardChain) =>
       caller_words = RefSha256TwoBlocks(blocks[1].block, blocks[2].block)

C3_Witness == phase = "added" /\ FeedForwardChain

\* C10: in every call of compress the message schedule has processed the 16
\* input words into 64 half-word pairs before the compression engine starts;
\* the engine runs from a copy of the caller's initialized state, which the
\* call leaves unchanged; a failing message schedule makes the call return
\* that error without the engine running; a successful call returns the final
\* state and the assigned cells of the 16 input words.
C10_ScheduleThenEngine ==
  /\ phase = "scheduled" =>
       /\ call.schedule_ran /\ call.schedule.ok /\ ~call.engine_ran
       /\ Len(call.schedule.w_halves) = ROUNDS
  /\ call.engine_ran =>
       /\ call.schedule_ran /\ call.schedule.ok
       /\ Len(call.schedule.w_halves) = ROUNDS
       /\ \A t \in 1..BLOCK_SIZE : call.schedule.w_halves[t] = call.input[t]
       /\ call.engine_w_halves = call.schedule.w_halves
       /\ call.engine_state = call.caller_state
  /\ call.schedule_ran => initialized = call.caller_state
  /\ (call.schedule_ran /\ ~call.schedule.ok) =>
       /\ ~call.engine_ran
       /\ call.ret.kind = "Err" /\ call.ret.error = "message_schedule"
       /\ phase = "failed"
  /\ call.ret.kind = "Ok" =>
       /\ call.engine_ran
       /\ call.ret.state = state
       /\ Len(call.ret.assigned_inputs) = BLOCK_SIZE
       /\ call.ret.assigned_inputs = call.input

C10_Witness ==
  /\ phase = "compressed"
  /\ call.ret.kind = "Ok"
  /\ call.engine_ran
  /\ Len(blocks) = 2

----------------------------------------------------------------------------
(* Claims about the codec, checked under SpecCodec.                        *)

\* Bit i (0-based) of the input, by division of the limb that holds it.
InputBit(i) == ((cin[(i \div 16) + 1] \div (2 ^ (i % 16))) % 2) = 1

\* C4: for N in {16, 32}, the N-bit decomposition of x succeeds exactly when
\* x < 2^N, then yields the N little-endian bits of x, which read back as x;
\* for x >= 2^N it fails and returns no bits.  The typed round trips
\* u16 -> Bits<16> -> u16 and u32 -> Bits<32> -> u32 are the identity.
C4_BitsOfRoundTrip ==
  /\ cout.op = "i2lebsp" =>
       /\ cout.ok <=> (\A k \in ((cout.width \div 16) + 1)..4 : cin[k] = 0)
       /\ cout.ok =>
            /\ Len(cout.bits) = cout.width
            /\ \A i \in 0..(cout.width - 1) : cout.bits[i + 1] = InputBit(i)
            /\ lebs2ip(cout.bits) = cin
       /\ ~cout.ok => cout.bits = <<>>
  /\ cout.op \in {"u16", "u32"} =>
       /\ Len(cout.bits) = cout.width
       /\ \A i \in 0..(cout.width - 1) : cout.bits[i + 1] = InputBit(i)
       /\ cout.int = cin

\* A 32-bit value with its top bit set went through u32 -> Bits<32> -> u32.
C4_Witness == cout.op = "u32" /\ cin[2] >= 32768 /\ cout.int = cin

\* C5: for a 16-bit x, the spread of its bits is 32 bits long, holds bit i of
\* x at position 2i and 0 at position 2i+1; the even positions read back as x
\* and the odd positions as 0.
C5_SpreadInterleavesZeros ==
  cout.op = "spread" =>
    /\ Len(cout.bits) = 32
    /\ \A i \in 0..15 : cout.bits[2 * i + 1] = InputBit(i) /\ cout.bits[2 * i + 2] = FALSE
    /\ lebs2ip(even_bits(cout.bits)) = cin
    /\ lebs2ip(odd_bits(cout.bits)) = <<0, 0, 0, 0>>

\* The all-ones half-word was spread.
C5_Witness == cout.op = "spread" /\ cin[1] = 65535

----------------------------------------------------------------------------
(* Claims about the spread table and its lookup, checked under SpecLookup. *)

\* The spread encoding of the 16-bit value v, by the codec.
SpreadEncoding(v) ==
  lebs2ip(Bits_spread(From_u16_for_Bits16(v)))[1]
    + 65536 * lebs2ip(Bits_spread(From_u16_for_Bits16(v)))[2]

\* The first `rows` rows of the table are one per 16-bit value, in ascending
\* order of the dense entry, each with the spread encoding of its value, and
\* the spread entries ascend strictly (so no two rows share one).
TableComplete(rows) ==
  /\ rows = 65536
  /\ \A i \in 1..rows :
       /\ TableCell([tag |-> 0, dense |-> 1, spread |-> 2], i, 1) = i - 1
       /\ TableCell([tag |-> 0, dense |-> 1, spread |-> 2], i, 2) = SpreadEncoding(i - 1)
  /\ \A i \in 1..(rows - 1) :
       TableCell([tag |-> 0, dense |-> 1, spread |-> 2], i, 2)
         < TableCell([tag |-> 0, dense |-> 1, spread |-> 2], i + 1, 2)

\* C6: load leaves the table with exactly 2^16 rows, every 16-bit value the
\* dense entry of exactly one row, that row's spread entry the value's spread
\* encoding, no two rows sharing a spread entry; no step after load changes
\* the table.
C6_TableCompleteAndReadOnly ==
  [][ /\ (phase = "created" /\ phase' = "loaded") => TableComplete(table_rows')
      /\ phase # "created" => table_rows' = table_rows ]_vars

\* The table is loaded and the backend has verified rows looked up in it.
C6_Witness == phase = "loaded" /\ table_rows = 65536 /\ verdict = "ok" /\ lookup_rows # <<>>

\* C7: once the backend has verified, a witness row whose dense cell is
\* outside 0..2^16-1 has made the lookup unsatisfiable, whatever its tag and
\* spread cells hold.
C7_OutOfRangeDenseRejected ==
  verdict # "none" =>
    ((\E r \in 1..Len(lookup_rows) :
        lookup_rows[r][configs[1].config.lookup.input.dense + 1] \notin 0..65535)
     => verdict = "lookup_unsatisfied")

\* A row with dense cell 2^16 was verified and rejected.
C7_Witness ==
  /\ verdict = "lookup_unsatisfied"
  /\ \E r \in 1..Len(lookup_rows) :
       lookup_rows[r][configs[1].config.lookup.input.dense + 1] = 65536

----------------------------------------------------------------------------
(* Claim about configuration, checked under SpecConfigure.                 *)

----------------------------------------------------------------------------
(* Claim about cell assignment, checked under SpecAssign.                  *)

\* The step is a call on an instance column: it panics and the region is as
\* it was.
InstanceCallIsFatal ==
  result'.column = "Instance" =>
    /\ result'.outcome = "panic"
    /\ result'.cell = NoCell
    /\ region' = region

\* The step wrote the call's value at the call's column and offset, left
\* every other cell alone, and returned the cell's handle.
CallWroteCell ==
  /\ result'.backend = "Ok"
  /\ result'.outcome = "Ok"
  /\ result'.cell = [column |-> result'.column, offset |-> result'.offset]
  /\ [column |-> result'.column, offset |-> result'.offset, value |-> result'.value]
       \in region'
  /\ \A c \in region' : (c.column = result'.column /\ c.offset = result'.offset)
                          => c.value = result'.value
  /\ \A c \in region' : ~(c.column = result'.column /\ c.offset = result'.offset)
                          => c \in region
  /\ \A c \in region : ~(c.column = result'.column /\ c.offset = result'.offset)
                         => c \in region'

\* The step returned the backend's error and wrote nothing.
CallReturnedBackendError ==
  /\ result'.backend # "Ok"
  /\ result'.outcome = "Err"
  /\ result'.message = result'.backend
  /\ result'.cell = NoCell
  /\ region' = region

\* C9 as stated: a call on an instance column is fatal and writes nothing; a
\* call on an advice or fixed column writes the cell and returns its handle,
\* or returns the backend's error.
C9_AssignWritesOrReturnsError ==
  [][ result'.fn # "none" =>
        /\ InstanceCallIsFatal
        /\ result'.column \in {"Advice", "Fixed"} =>
             (CallWroteCell \/ CallReturnedBackendError) ]_vars

\* C9 as the code has it: the same, for a value that is unknown or has LEN
\* bits; assign_bits given a known value of another length is fatal for every
\* kind of column and writes nothing.
C9_AssignWritesUnlessValueMisfits ==
  [][ result'.fn # "none" =>
        /\ InstanceCallIsFatal
        /\ (/\ result'.column \in {"Advice", "Fixed"}
            /\ (result'.value.known => Len(result'.value.bits) = result'.len)) =>
             (CallWroteCell \/ CallReturnedBackendError)
        /\ (result'.value.known /\ Len(result'.value.bits) # result'.len) =>
             (result'.outcome = "panic" /\ result'.cell = NoCell /\ region' = region) ]_vars

\* A call on an instance column panicked in a region that already held cells.
C9_Witness == result.column = "Instance" /\ result.outcome = "panic" /\ region # {}

====
